---- MODULE Spec2Model ----
(***************************************************************************)
(* kappa-backend: the precompute cache, the background precomputer, the    *)
(* explicit recompute handler and the online recommendation handlers.      *)
(*                                                                         *)
(* Spec      one serving process: the durable snapshot store, the          *)
(*           process-local cache, the background thread and the request    *)
(*           thread (src/src/kappa/main.py, precompute.py, database.py).   *)
(* LiveSpec  Spec with the fairness of the background thread.              *)
(* IngestSpec  the request thread with the ingestion handlers, on a store  *)
(*           that holds the snapshots of an earlier process.               *)
(* AuthSpec  IngestSpec behind the before_request hook, for every client.  *)
(* WorkerSpec  several worker processes, each running the background       *)
(*           precompute against the one store.                             *)
(* BootSpec  Spec without the queries: the background thread beside the    *)
(*           recompute handler.                                            *)
(* CallSpec  one call of predict or find_neighbor on a frame.              *)
(* MergeSpec  one call of merge_cluster, pass by pass of its loop.         *)
(* PivotSpec  one call of load_rating_data's pivot_table on rating rows.   *)
(* PredSpec  one recommendation request, served by the kappa package       *)
(*           handler from the cached snapshot or by the flat-layout        *)
(*           process_recommendations (src/main.py, utils.py, predict.py,   *)
(*           cluster.py): candidates, predictions, the returned list.      *)
(* CopySpec  two recommendation requests of the kappa package interleaved  *)
(*           on one cached snapshot.                                       *)
(***************************************************************************)
EXTENDS Integers, Sequences, FiniteSets, TLC

\* ------------------------------------------------------------------ bounds
MaxItem == 2
MaxReqs == 2
MaxComic == 5
MaxSeeds == 2
MaxRows == 3
MaxClusters == 3
\* find_neighbor's and predict's default k, and the default of Config.KNN_K,
\* are 10; the model runs them with this smaller k.
KNN_K == 1

\* ------------------------------------------------------- program constants
N_CLUSTERS == 2
EPS_TENTHS == 78
MIN_PTS == 11
MIN_RATING_THRESHOLD == 3

Items == 1..MaxItem
Methods == {"kmeans", "dbscan"}
MethodOrder == <<"kmeans", "dbscan">>
\* gunicorn.conf.py sets no worker class and no thread count: a worker process
\* serves one request at a time, beside its background precompute thread.
Threads == {"t1"}

VARIABLES
    ratings,    \* item ids that have a row in table ratings
    genres,     \* item ids that have a row in table comic_genres
    db,         \* table precomputed_matrices: a set of rows
    clock,      \* number of saves so far: the computed_at of the next save
    cache,      \* _precomputed_cache: method -> snapshot
    ready,      \* _ready
    bg,         \* the thread running _background_precompute
    req,        \* the request threads
    started,    \* requests accepted so far
    returned,   \* method -> computed_at of the newest snapshot saved by a
                \* recompute request whose response has been sent
    app,        \* the application serving recommendations: "kappa" (src/src/kappa)
                \* or "legacy" (src/main.py)
    knn_k,      \* the k given to predict: its default, or Config.KNN_K
    hist,       \* the historic ratings: comic -> position of its row
    frames,     \* the DataFrame objects: object id -> columns
    precomputed,\* the cached snapshot: its matrix object, labels, centroids
    pr,         \* the recommendation requests
    http,       \* API_TOKEN (set or not) and the client's requests as the
                \* before_request hook sees them: method, path, X-API-Key
    call,       \* a direct call of predict or find_neighbor: its arguments, the
                \* frame as it was given, the outcome
    wk,         \* the gunicorn workers: each one's background thread and cache
    saves       \* the calls of save_precomputed so far, in order

svcVars == <<ratings, genres, db, clock, cache, ready, bg, req, started, returned>>
predVars == <<app, knn_k, hist, frames, precomputed, pr, call, http>>
wkVars == <<wk, saves>>
vars == <<svcVars, predVars, wkVars>>

\* ---------------------------------------------------------------- snapshots
\* None / no cache entry. A snapshot is the dict load_precomputed returns: the
\* matrix index (items), the label array (labels: position i holds the
\* engine's label of the item named there, 0 for NaN), centroids present or
\* None, computed_at (ver).
NoSnap == [method |-> "none", items |-> {}, labels |-> <<>>, centroids |-> FALSE,
           ver |-> 0]

Present(s) == s.method # "none"

\* pickle.dumps / pickle.loads: a value and its byte string
pickle_dumps(v) == <<"pickle", v>>
pickle_loads(b) == b[2]

\* Faulty variant: a row whose centroids unpickle to None counts as no row.
load_precomputed_needs_centroids(store, method) ==
    IF \A r \in store : r.method # method \/ ~pickle_loads(r.centroids) THEN NoSnap
    ELSE LET row == CHOOSE r \in store : r.method = method
         IN  [method |-> method,
              items |-> pickle_loads(row.user_item_matrix),
              labels |-> pickle_loads(row.cluster_labels),
              centroids |-> pickle_loads(row.centroids),
              ver |-> row.computed_at]

\* load_precomputed: SELECT ... WHERE method = ?, fetchone; None without a
\* row, else the three columns unpickled and computed_at.
load_precomputed(store, method) ==
    IF \A r \in store : r.method # method THEN NoSnap
    ELSE LET row == CHOOSE r \in store : r.method = method
         IN  [method |-> method,
              items |-> pickle_loads(row.user_item_matrix),
              labels |-> pickle_loads(row.cluster_labels),
              centroids |-> pickle_loads(row.centroids),
              ver |-> row.computed_at]

\* Faulty variant: the row of the method gets the new matrix and time, and
\* keeps its labels and centroids.
save_precomputed_torn(store, method, snap, now) ==
    {r \in store : r.method # method}
        \cup IF \A r \in store : r.method # method
             THEN {[method |-> method,
                    user_item_matrix |-> pickle_dumps(snap.items),
                    cluster_labels |-> pickle_dumps(snap.labels),
                    centroids |-> pickle_dumps(snap.centroids),
                    computed_at |-> now]}
             ELSE {[r EXCEPT !.user_item_matrix = pickle_dumps(snap.items),
                             !.computed_at = now] : r \in {x \in store : x.method = method}}

\* Faulty variant: a plain INSERT, the rows of the method are kept.
save_precomputed_insert(store, method, snap, now) ==
    store \cup {[method |-> method,
                 user_item_matrix |-> pickle_dumps(snap.items),
                 cluster_labels |-> pickle_dumps(snap.labels),
                 centroids |-> pickle_dumps(snap.centroids),
                 computed_at |-> now]}

\* save_precomputed: INSERT ... ON CONFLICT(method) DO UPDATE of the four
\* columns, one statement and one commit; computed_at = now
save_precomputed(store, method, snap, now) ==
    {r \in store : r.method # method}
        \cup {[method |-> method,
               user_item_matrix |-> pickle_dumps(snap.items),
               cluster_labels |-> pickle_dumps(snap.labels),
               centroids |-> pickle_dumps(snap.centroids),
               computed_at |-> now]}

\* _invalidate_precomputed_cache(method): pop one entry, or clear all ("all")
_invalidate_precomputed_cache(c, method) ==
    IF method = "all" THEN [m \in Methods |-> NoSnap]
    ELSE [m \in Methods |-> IF m = method THEN NoSnap ELSE c[m]]

\* ------------------------------------------------------------ run_precompute
\* Ascending sequence of a set of comic ids (np.unique).
RECURSIVE SortedSeq(_)
SortedSeq(S) ==
    IF S = {} THEN <<>>
    ELSE LET m == CHOOSE x \in S : \A y \in S : x <= y
         IN  <<m>> \o SortedSeq(S \ {m})

Range(s) == {s[i] : i \in 1..Len(s)}

\* load_rating_data: the matrix has a row per rated item; the cluster data is
\* the inner merge with the genre table. Both are in ascending order of id.
load_rating_data(rated, genred) == [matrix |-> rated, cluster_data |-> rated \cap genred]

\* kmeans_clustering: the parameter check, then sklearn's KMeans.fit, which
\* raises ValueError when there are fewer samples than clusters.
kmeans_clustering(n_clusters, cluster_data) ==
    IF n_clusters < 1 THEN "InvalidParameter"
    ELSE IF Cardinality(cluster_data) < n_clusters THEN "EngineError"
    ELSE "none"

\* dbscan_clustering: the parameter checks, then sklearn's DBSCAN.fit_predict,
\* which raises ValueError on an empty sample.
dbscan_clustering(eps_tenths, cluster_data, min_pts) ==
    IF eps_tenths <= 0 THEN "InvalidParameter"
    ELSE IF min_pts < 1 THEN "InvalidParameter"
    ELSE IF cluster_data = {} THEN "EngineError"
    ELSE "none"

\* Faulty variant: a name that is not recognized falls back to the default method.
ClusterDispatchDefault(method) ==
    IF method = "dbscan" THEN "dbscan" ELSE "kmeans"

\* The branch of run_precompute a method name takes.
ClusterDispatch(method) ==
    IF method = "kmeans" THEN "kmeans"
    ELSE IF method = "dbscan" THEN "dbscan"
    ELSE "raise"

\* ratings_cluster["cluster"].values: the engine's predictions, one per row of
\* the cluster data, are concatenated (axis=1) to the matrix by position; the
\* rows past the last prediction hold NaN.
cluster_column(matrix, cluster_data) ==
    [i \in 1..Cardinality(matrix) |->
        IF i <= Cardinality(cluster_data) THEN SortedSeq(cluster_data)[i] ELSE 0]

\* run_precompute up to, not including, save_precomputed: the error raised
\* ("none" when it reaches the save) and what the save would be given.
run_precompute(method, rated, genred) ==
    LET d == load_rating_data(rated, genred)
        branch == ClusterDispatch(method)
        err == IF rated = {} \/ genred = {} THEN "MissingData"
               ELSE IF branch = "kmeans" THEN kmeans_clustering(N_CLUSTERS, d.cluster_data)
               ELSE IF branch = "dbscan"
                    THEN dbscan_clustering(EPS_TENTHS, d.cluster_data, MIN_PTS)
               ELSE "UnknownMethod"
    IN  [err |-> err,
         snap |-> [method |-> IF branch = "raise" THEN method ELSE branch,
                   items |-> d.matrix,
                   labels |-> cluster_column(d.matrix, d.cluster_data),
                   centroids |-> (branch = "kmeans" /\ err = "none"),
                   ver |-> 0]]

\* Faulty variant: the save is reached whatever the clustering raised.
AfterComputeAlwaysSave(out) == "save"

\* Where a caller of run_precompute continues after the clustering: the save,
\* or the exception's handler.
AfterCompute(out) == IF out.err = "none" THEN "save" ELSE "raised"


\* ----------------------------------------------------- the ratings data
Comics == 1..MaxComic
\* A comic id no row of the matrix has.
UnknownComic == MaxComic + 1
\* Cluster ids of an engine run with N_CLUSTERS clusters.
Labels == 0..(N_CLUSTERS - 1)
KAPPA_USER_ID == "KAPPA_NEW_USER"

\* The index of user_item_matrix: a row per comic, in comicID order.
Index == [i \in 1..MaxComic |-> i]

\* The historic ratings decide the distance of two rows. Two data sets: rows
\* spread out evenly, and rows of two kinds (equal rows within a kind).
Datasets == {[c \in Comics |-> 4 * (c - 1)], [c \in Comics |-> 10 * (c % 2)]}

\* The metric of NearestNeighbors between the rows of comics a and b, in tenths.
Distance(h, a, b) == IF h[a] >= h[b] THEN h[a] - h[b] ELSE h[b] - h[a]

\* similarities = 1 - distances, in tenths
Similarity(h, a, b) == 10 - Distance(h, a, b)

Abs(x) == IF x < 0 THEN -x ELSE x

\* A request body: comic id -> rating, 0 for an id the body has no entry for.
SeedIds == Comics \cup {UnknownComic}
\* The bodies rate up to MaxSeeds comics: with 5, one of them at most with 3
\* (the rating of a comic without a row is never read: it is 5).
SeedInputs ==
    {u \in [SeedIds -> {0, 3, 5}] :
        /\ Cardinality({c \in SeedIds : u[c] # 0}) <= MaxSeeds
        /\ Cardinality({c \in SeedIds : u[c] = 3}) <= 1
        /\ u[UnknownComic] # 3}

\* build_ratings_cluster: a new frame, the matrix's columns and the labels
build_ratings_cluster(user_item_matrix, cluster_labels) ==
    [index |-> Index,
     columns |-> user_item_matrix.columns \cup {"cluster"},
     user |-> user_item_matrix.user,
     cluster |-> cluster_labels]

\* ratings_cluster.loc[ratings_cluster["cluster"] == which_cluster]
ClusterRows(rc, which_cluster) ==
    SelectSeq(rc.index, LAMBDA c : rc.cluster[c] = which_cluster)

\* ------------------------------------------------------------ find_neighbor
\* kneighbors: the n rows nearest to the item's row, nearest first, rows at the
\* same distance in row order; row positions within rows.
RECURSIVE KNearest(_, _, _, _, _)
KNearest(rows, h, item_id, n, taken) ==
    IF n = 0 THEN <<>>
    ELSE LET cand == (1..Len(rows)) \ taken
             d(p) == Distance(h, item_id, rows[p])
             best == CHOOSE p \in cand :
                        \A q \in cand : d(p) < d(q) \/ (d(p) = d(q) /\ p <= q)
         IN  <<best>> \o KNearest(rows, h, item_id, n - 1, taken \cup {best})

\* Faulty variant: an item without a row is taken to be the first row.
find_neighbor_first_row(item_id, rows, h, k) ==
    IF Len(rows) < k + 1 THEN [err |-> "ValueError", indices |-> <<>>]
    ELSE [err |-> "none",
          indices |-> KNearest(rows, h, IF item_id \in Range(rows) THEN item_id ELSE rows[1],
                               k + 1, {})]

\* find_neighbor: KeyError when the item has no row, ValueError from kneighbors
\* when there are fewer than k + 1 rows, else the k + 1 nearest rows.
find_neighbor(item_id, rows, h, k) ==
    IF item_id \notin Range(rows) THEN [err |-> "KeyError", indices |-> <<>>]
    ELSE IF Len(rows) < k + 1 THEN [err |-> "ValueError", indices |-> <<>>]
    ELSE [err |-> "none", indices |-> KNearest(rows, h, item_id, k + 1, {})]

\* ------------------------------------------------------------ merge_cluster
\* centroids: cluster id -> the place of its centroid (one coordinate). The
\* fitted k-means model of the service has the centroid of cluster c at c.
KMeansCentroids == [c \in Labels |-> c]

\* dist(centroids[a], centroids[b])
CentroidDistance(centroids, a, b) == Abs(centroids[a] - centroids[b])

\* Faulty variant: equal distances in descending cluster order.
RECURSIVE SortedClusters_ties_descending(_, _, _)
SortedClusters_ties_descending(which_cluster, centroids, others) ==
    IF others = {} THEN <<>>
    ELSE LET d(c) == CentroidDistance(centroids, which_cluster, c)
             best == CHOOSE c \in others :
                        \A e \in others : d(c) < d(e) \/ (d(c) = d(e) /\ c >= e)
         IN  <<best>> \o SortedClusters_ties_descending(which_cluster, centroids,
                                                         others \ {best})

\* sorted(cluster_distance.items(), key=lambda x: x[1]): nearest centroid
\* first; the sort is stable and the dict is filled in cluster order, so equal
\* distances stay in cluster order.
RECURSIVE SortedClusters(_, _, _)
SortedClusters(which_cluster, centroids, others) ==
    IF others = {} THEN <<>>
    ELSE LET d(c) == CentroidDistance(centroids, which_cluster, c)
             best == CHOOSE c \in others :
                        \A e \in others : d(c) < d(e) \/ (d(c) = d(e) /\ c <= e)
         IN  <<best>> \o SortedClusters(which_cluster, centroids, others \ {best})

\* Faulty variant: the cluster itself is among the distances.
find_centroid_distance_with_self(which_cluster, centroids) ==
    SortedClusters(which_cluster, centroids, DOMAIN centroids)

\* find_centroid_distance, then sorted: the clusters other than which_cluster
\* (which_cluster is a cluster of the model: no IndexError).
find_centroid_distance(which_cluster, centroids) ==
    SortedClusters(which_cluster, centroids, (DOMAIN centroids) \ {which_cluster})

\* Faulty variant: the loop goes on until there are more than k members.
LoopBreaks_above_k(cluster_member, k) == cluster_member > k

\* if cluster_member >= k: break
LoopBreaks(cluster_member, k) == cluster_member >= k

\* pd.concat([clustered_ratings, nearest_cluster], axis=0), nearest_cluster the
\* rows of all_ratings with cluster == nearest_cluster_id
Absorb(clustered_rows, rc, nearest_cluster_id) ==
    clustered_rows \o ClusterRows(rc, nearest_cluster_id)

\* for nearest_cluster_id, distance in sorted_clusters: stop once
\* cluster_member >= k, else append the rows of the nearest cluster
RECURSIVE MergeLoop(_, _, _, _)
MergeLoop(clustered_rows, rc, sorted_clusters, k) ==
    IF sorted_clusters = <<>> \/ LoopBreaks(Len(clustered_rows) - 1, k) THEN clustered_rows
    ELSE MergeLoop(Absorb(clustered_rows, rc, Head(sorted_clusters)),
                   rc, Tail(sorted_clusters), k)

merge_cluster(clustered_rows, rc, which_cluster, centroids, k) ==
    MergeLoop(clustered_rows, rc, find_centroid_distance(which_cluster, centroids), k)

\* ------------------------------------------------------------------ predict
\* Faulty variant: sum_wt adds the similarity, not its absolute value.
RECURSIVE WeightedSums_signed(_, _, _, _, _)
WeightedSums_signed(indices, rows, rc, h, item_id) ==
    IF indices = <<>> THEN <<0, 0>>
    ELSE LET rest == WeightedSums_signed(Tail(indices), rows, rc, h, item_id)
             c == rows[Head(indices)]
             s == Similarity(h, item_id, c)
         IN  IF c = item_id \/ rc.user[c] = 0 THEN rest
             ELSE <<rest[1] + rc.user[c] * s, rest[2] + s>>

\* The weighted sum over the neighbours: the item's own row and the rows the
\* user has not rated are skipped. <<wtd_sum, sum_wt>>
RECURSIVE WeightedSums(_, _, _, _, _)
WeightedSums(indices, rows, rc, h, item_id) ==
    IF indices = <<>> THEN <<0, 0>>
    ELSE LET rest == WeightedSums(Tail(indices), rows, rc, h, item_id)
             c == rows[Head(indices)]
             s == Similarity(h, item_id, c)
         IN  IF c = item_id \/ rc.user[c] = 0 THEN rest
             ELSE <<rest[1] + rc.user[c] * s, rest[2] + Abs(s)>>

\* Faulty variant: the cluster size is checked whether or not centroids came.
MergeNeeded_without_centroids(centroids, cluster_member, k) == cluster_member < k

\* if centroids is not None: ... if cluster_member < k
MergeNeeded(centroids, cluster_member, k) == centroids /\ cluster_member < k

\* The clustered_ratings predict hands to find_neighbor, and whether
\* merge_cluster was called for them.
PredictRows(item_id, rc, centroids, k) ==
    LET which_cluster == rc.cluster[item_id]
        own == ClusterRows(rc, which_cluster)
        merged == MergeNeeded(centroids, Len(own) - 1, k)
    IN  [merged |-> merged,
         known |-> which_cluster \in DOMAIN KMeansCentroids,
         rows |-> IF merged /\ which_cluster \in DOMAIN KMeansCentroids
                  THEN merge_cluster(own, rc, which_cluster, KMeansCentroids, k)
                  ELSE own]

\* predict: KeyError when the user has no column, IndexError (.iloc[0] of an
\* empty selection) when the item has no row, IndexError of
\* find_centroid_distance when the item's cluster has no centroid; else the
\* rating is the quotient num / den (den > 0), 0 when sum_wt = 0.
predict(user_id, item_id, rc, centroids, h, k) ==
    LET cr == PredictRows(item_id, rc, centroids, k)
        rows == cr.rows
        nb == find_neighbor(item_id, rows, h, k)
        sums == WeightedSums(nb.indices, rows, rc, h, item_id)
    IN  IF user_id \notin rc.columns THEN [err |-> "KeyError", id |-> item_id, num |-> 0, den |-> 1]
        ELSE IF item_id \notin Range(rc.index)
             THEN [err |-> "IndexError", id |-> item_id, num |-> 0, den |-> 1]
        ELSE IF cr.merged /\ ~cr.known
             THEN [err |-> "IndexError", id |-> item_id, num |-> 0, den |-> 1]
        ELSE IF nb.err # "none" THEN [err |-> nb.err, id |-> item_id, num |-> 0, den |-> 1]
        ELSE IF sums[2] = 0 THEN [err |-> "none", id |-> item_id, num |-> 0, den |-> 1]
        ELSE [err |-> "none", id |-> item_id, num |-> sums[1], den |-> sums[2]]

\* prediction["rating"] >= min_rating
AtLeast(p, min_rating) == p.num >= min_rating * p.den

\* a.rating >= b.rating
RatingGeq(a, b) == a.num * b.den >= b.num * a.den

\* sorted(..., key=rating, reverse=True): stable, equal ratings keep their order
RECURSIVE SortedDescending(_)
InsertDescending(sorted, p) ==
    LET n == Cardinality({i \in 1..Len(sorted) : RatingGeq(sorted[i], p)})
    IN  SubSeq(sorted, 1, n) \o <<p>> \o SubSeq(sorted, n + 1, Len(sorted))

SortedDescending(predictions) ==
    IF predictions = <<>> THEN <<>>
    ELSE InsertDescending(SortedDescending(SubSeq(predictions, 1, Len(predictions) - 1)),
                          predictions[Len(predictions)])

\* filter_and_sort_predictions
filter_and_sort_predictions(predictions, min_rating) ==
    SortedDescending(SelectSeq(predictions, LAMBDA p : AtLeast(p, min_rating)))

\* ------------------------------------------------------ find_nearest_unrated
\* The neighbours of every rated comic within its own cluster, joined; the
\* first error of find_neighbor, if any, is raised.
RECURSIVE NeighborsOfAll(_, _, _)
NeighborsOfAll(rated_comics, rc, h) ==
    IF rated_comics = <<>> THEN [err |-> "none", items |-> {}]
    ELSE LET item == Head(rated_comics)
             rows == ClusterRows(rc, rc.cluster[item])
             nb == find_neighbor(item, rows, h, KNN_K)
             rest == NeighborsOfAll(Tail(rated_comics), rc, h)
         IN  IF nb.err # "none" THEN [err |-> nb.err, items |-> {}]
             ELSE IF rest.err # "none" THEN rest
             ELSE [err |-> "none",
                   items |-> {rows[nb.indices[i]] : i \in 1..Len(nb.indices)} \cup rest.items]

\* Faulty variant: the rated comics are not removed from the neighbours.
find_nearest_with_rated(rated_comics, rc, h) ==
    LET all == NeighborsOfAll(rated_comics, rc, h)
    IN  [err |-> all.err, items |-> SortedSeq(all.items)]

\* np.unique, then np.setdiff1d(item_to_predict, rated_comics)
find_nearest_unrated(rated_comics, rc, h) ==
    LET all == NeighborsOfAll(rated_comics, rc, h)
    IN  [err |-> all.err, items |-> SortedSeq(all.items \ Range(rated_comics))]


\* ------------------------------------------ the recommendation requests' state
Requests == {"r1", "r2"}

\* Object ids of the DataFrames: 0 is the cached snapshot's user_item_matrix,
\* ObjOf(t) the object request t creates.
ObjOf(t) == IF t = "r1" THEN 1 ELSE 2
ObjIds == {0} \cup {ObjOf(t) : t \in Requests}

NoRatings == [c \in Comics |-> 0]
NoFrame == [columns |-> {}, user |-> NoRatings]
NoCluster == [index |-> <<>>, columns |-> {}, user |-> NoRatings,
              cluster |-> [c \in Comics |-> 0]]
NoPrecomputed == [user_item_matrix |-> 0, cluster_labels |-> [c \in Comics |-> 0],
                  centroids |-> FALSE]

\* Cluster ids are names: the first comic's cluster is called 0.
Labelings == {l \in [Comics -> Labels] : l[1] = 0}

Absent ==
    [pc |-> "absent", method |-> "none", input |-> [c \in SeedIds |-> 0],
     matrix |-> 0, rc |-> NoCluster, rated |-> <<>>, candidates |-> <<>>,
     queue |-> <<>>, preds |-> <<>>, failed |-> {}, nometa |-> {},
     clustered |-> FALSE, status |-> 0, result |-> <<>>]

\* A request that has arrived: its body and the endpoint it was sent to.
NewRequest(input, method) ==
    [Absent EXCEPT !.pc = "start", !.input = input, !.method = method]

\* The serving process of Spec answers no recommendation in detail.
NoCall == [pc |-> "none"]

\* The server token is configured and the requests carry it.
NoHttp == [api_token |-> TRUE, method |-> "POST", path |-> "/api", key |-> "right"]

PredIdle ==
    /\ call = NoCall
    /\ http = NoHttp
    /\ app = "none"
    /\ knn_k = KNN_K
    /\ hist = [c \in Comics |-> 0]
    /\ frames = [o \in ObjIds |-> NoFrame]
    /\ precomputed = NoPrecomputed
    /\ pr = [t \in Requests |-> Absent]

\* ------------------------------------------------------------------- state
Workers == {"w1", "w2"}

IdleWorker ==
    [pc |-> "load", i |-> 1, loaded |-> NoSnap,
     cache |-> [m \in Methods |-> NoSnap], outcome |-> [m \in Methods |-> "none"]]

WkIdle == wk = [w \in Workers |-> IdleWorker] /\ saves = <<>>

IdleReq ==
    [kind |-> "idle", pc |-> "idle", method |-> "none", queue |-> <<>>,
     valid |-> TRUE, loaded |-> NoSnap, pending |-> NoSnap,
     err |-> "none", status |-> 0, floor |-> 0,
     saved |-> [m \in Methods |-> 0]]

\* The store outlives the process: it is empty, or holds the rows an earlier
\* process saved.
OldSnap(m) == [method |-> m, items |-> Items, labels |-> SortedSeq(Items),
               centroids |-> (m = "kmeans"), ver |-> 0]

SortedMethods(methods) == SelectSeq(MethodOrder, LAMBDA m : m \in methods)

RECURSIVE OldStore(_)
OldStore(methods) ==
    IF methods = {} THEN {}
    ELSE LET m == CHOOSE x \in methods : TRUE
         IN  save_precomputed(OldStore(methods \ {m}), m, OldSnap(m), 0)

Init ==
    \* Up to a renaming of the items: the items with a genre row come first,
    \* and the rated ones come first among those with and those without. The
    \* tables hold up to N_CLUSTERS items, which is where the engines' branches
    \* part (no row, fewer rows than clusters, enough rows).
    /\ genres \in {1..n : n \in 0..N_CLUSTERS}
    /\ \E a \in 0..Cardinality(genres), b \in 0..(N_CLUSTERS - Cardinality(genres)) :
         ratings = (1..a) \cup ((Cardinality(genres) + 1)..(Cardinality(genres) + b))
    /\ db \in {{}, OldStore(Methods)}
    /\ clock = 0
    /\ cache = [m \in Methods |-> NoSnap]
    /\ ready = FALSE
    /\ bg = [pc |-> "unstarted", i |-> 1, loaded |-> NoSnap, pending |-> NoSnap,
             err |-> "none", computed |-> FALSE, outcome |-> [m \in Methods |-> "pending"]]
    /\ req = [t \in Threads |-> IdleReq]
    /\ started = 0
    /\ returned = [m \in Methods |-> 0]
    /\ PredIdle
    /\ WkIdle

\* -------------------------------------------------- _background_precompute
BgMethod == MethodOrder[bg.i]

\* The end of one iteration of "for method in methods": the next method, or
\* the statement after the loop.
BgAdvance(b, result) ==
    LET o == [b.outcome EXCEPT ![MethodOrder[b.i]] = result]
    IN  IF b.i < Len(MethodOrder)
        THEN [b EXCEPT !.pc = "load", !.i = b.i + 1, !.loaded = NoSnap, !.err = "none",
                       !.pending = NoSnap, !.computed = FALSE, !.outcome = o]
        ELSE [b EXCEPT !.pc = "setready", !.loaded = NoSnap, !.err = "none",
                       !.pending = NoSnap, !.computed = FALSE, !.outcome = o]

\* Faulty variant: the exception is not caught and ends the thread.
BgExceptDies(b) == [b EXCEPT !.pc = "dead"]

\* "except Exception as exc": the error is printed and the loop goes on.
BgExcept(b) == BgAdvance(b, "failed")

\* start_precompute_thread
BgStart ==
    /\ bg.pc = "unstarted"
    /\ bg' = [bg EXCEPT !.pc = "load"]
    /\ UNCHANGED <<predVars, wkVars, ratings, genres, db, clock, cache, ready, req, started, returned>>

\* Faulty variant: the method is computed whether or not a row was loaded.
BgLoadAlwaysComputes ==
    /\ bg.pc = "load"
    /\ bg' = [bg EXCEPT !.loaded = NoSnap, !.pc = "compute"]
    /\ UNCHANGED <<predVars, wkVars, ratings, genres, db, clock, cache, ready, req, started, returned>>

\* loaded = load_precomputed(method); if loaded: ... else: ...
\* The read of the store may raise (sqlite3.Error), inside the try.
BgLoad ==
    /\ bg.pc = "load"
    /\ \E raises \in BOOLEAN :
         LET l == load_precomputed(db, BgMethod)
         IN  bg' = IF raises THEN BgExcept(bg)
                   ELSE [bg EXCEPT !.loaded = l,
                                   !.pc = IF Present(l) THEN "fill" ELSE "compute"]
    /\ UNCHANGED <<predVars, wkVars, ratings, genres, db, clock, cache, ready, req, started, returned>>

\* _precomputed_cache[method] = {...loaded...} (after the first load, or after
\* the reload that follows run_precompute)
BgFill ==
    /\ bg.pc = "fill"
    /\ cache' = IF Present(bg.loaded)
                THEN [cache EXCEPT ![BgMethod] = bg.loaded] ELSE cache
    /\ bg' = BgAdvance(bg, IF bg.computed THEN "computed" ELSE "loaded")
    /\ UNCHANGED <<predVars, wkVars, ratings, genres, db, clock, ready, req, started, returned>>

\* run_precompute(method), up to the save
BgCompute ==
    /\ bg.pc = "compute"
    /\ LET out == run_precompute(BgMethod, ratings, genres)
       IN  bg' = IF AfterCompute(out) = "save"
                 THEN [bg EXCEPT !.pc = "save", !.pending = out.snap, !.err = out.err]
                 ELSE BgExcept(bg)
    /\ UNCHANGED <<predVars, wkVars, ratings, genres, db, clock, cache, ready, req, started, returned>>

\* save_precomputed, the last statement of run_precompute
BgSave ==
    /\ bg.pc = "save"
    /\ db' = save_precomputed(db, BgMethod, bg.pending, clock + 1)
    /\ clock' = clock + 1
    /\ saves' = Append(saves, [bg.pending EXCEPT !.ver = clock + 1])
    /\ bg' = [bg EXCEPT !.pc = "reload", !.pending = NoSnap]
    /\ UNCHANGED <<predVars, wk, ratings, genres, cache, ready, req, started, returned>>

\* loaded = load_precomputed(method) after run_precompute
BgReload ==
    /\ bg.pc = "reload"
    /\ bg' = [bg EXCEPT !.loaded = load_precomputed(db, BgMethod),
                        !.computed = TRUE, !.pc = "fill"]
    /\ UNCHANGED <<predVars, wkVars, ratings, genres, db, clock, cache, ready, req, started, returned>>

\* Faulty variant: _ready.set() inside the loop, after the first method.
BgSetReadyInLoop ==
    /\ bg.pc \in {"load", "setready"} /\ bg.i > 1 /\ ~ready
    /\ ready' = TRUE
    /\ bg' = IF bg.pc = "setready" THEN [bg EXCEPT !.pc = "done"] ELSE bg
    /\ UNCHANGED <<predVars, wkVars, ratings, genres, db, clock, cache, req, started, returned>>

\* _ready.set(), the statement after the loop
BgSetReady ==
    /\ bg.pc = "setready"
    /\ ready' = TRUE
    /\ bg' = [bg EXCEPT !.pc = "done"]
    /\ UNCHANGED <<predVars, wkVars, ratings, genres, db, clock, cache, req, started, returned>>

BgNext == BgStart \/ BgLoad \/ BgFill \/ BgCompute \/ BgSave \/ BgReload \/ BgSetReady


\* ------------------------------------------ /api/kmeans, /api/dbscan handlers
\* A finished request keeps what it answered: its kind, method and status.
Done(r, status) ==
    [IdleReq EXCEPT !.kind = r.kind, !.method = r.method, !.valid = r.valid,
                    !.err = r.err, !.pc = "done", !.status = status]

Free(t) == req[t].pc \in {"idle", "done"}

CanStart(t) == Free(t) /\ started < MaxReqs

\* _validate_user_input: the 400 of a malformed body comes before anything else
QStart(t) ==
    /\ CanStart(t)
    /\ \E m \in Methods, valid \in BOOLEAN :
         req' = [req EXCEPT ![t] =
                [IdleReq EXCEPT !.kind = "query", !.method = m, !.valid = valid,
                                !.floor = IF valid THEN returned[m] ELSE 0,
                                !.pc = IF valid THEN "cacheget" ELSE "done",
                                !.status = IF valid THEN 0 ELSE 400]]
    /\ started' = started + 1
    /\ UNCHANGED <<predVars, wkVars, ratings, genres, db, clock, cache, ready, bg, returned>>

\* _load_precomputed: cached = _precomputed_cache.get(method); if cached: return
QCacheGet(t) ==
    /\ req[t].kind = "query" /\ req[t].pc = "cacheget"
    /\ LET c == cache[req[t].method]
       IN  req' = [req EXCEPT ![t].loaded = c,
                              ![t].pc = IF Present(c) THEN "serve" ELSE "dbload"]
    /\ UNCHANGED <<predVars, wkVars, ratings, genres, db, clock, cache, ready, bg, started, returned>>

\* Faulty variant: a missing snapshot is answered like a bad request.
QDbLoadBadRequest(t) ==
    /\ req[t].kind = "query" /\ req[t].pc = "dbload"
    /\ LET l == load_precomputed(db, req[t].method)
       IN  req' = [req EXCEPT ![t] =
                      IF Present(l)
                      THEN [req[t] EXCEPT !.loaded = l, !.pc = "cachefill"]
                      ELSE Done(req[t], 400)]
    /\ UNCHANGED <<predVars, wkVars, ratings, genres, db, clock, cache, ready, bg, started, returned>>

\* _load_precomputed: loaded = load_precomputed(method); None gives the 503
QDbLoad(t) ==
    /\ req[t].kind = "query" /\ req[t].pc = "dbload"
    /\ LET l == load_precomputed(db, req[t].method)
       IN  req' = [req EXCEPT ![t] =
                      IF Present(l)
                      THEN [req[t] EXCEPT !.loaded = l, !.pc = "cachefill"]
                      ELSE Done(req[t], 503)]
    /\ UNCHANGED <<predVars, wkVars, ratings, genres, db, clock, cache, ready, bg, started, returned>>

\* Faulty variant: the loaded snapshot is cached under the other method.
QCacheFillOtherMethod(t) ==
    /\ req[t].kind = "query" /\ req[t].pc = "cachefill"
    /\ cache' = [m \in Methods |-> IF m # req[t].method THEN req[t].loaded ELSE cache[m]]
    /\ req' = [req EXCEPT ![t].pc = "serve"]
    /\ UNCHANGED <<predVars, wkVars, ratings, genres, db, clock, ready, bg, started, returned>>

\* _load_precomputed: _precomputed_cache[method] = cached
QCacheFill(t) ==
    /\ req[t].kind = "query" /\ req[t].pc = "cachefill"
    /\ cache' = [cache EXCEPT ![req[t].method] = req[t].loaded]
    /\ req' = [req EXCEPT ![t].pc = "serve"]
    /\ UNCHANGED <<predVars, wkVars, ratings, genres, db, clock, ready, bg, started, returned>>

\* The rest of the handler works on a private copy of the snapshot; the seed
\* items of the body are first read here. 400 when no seed item is in the
\* matrix, else the prediction pipeline, which either completes (200) or
\* raises (500).
QServe(t) ==
    /\ req[t].kind = "query" /\ req[t].pc = "serve"
    /\ \E seeds \in SUBSET Items, completes \in BOOLEAN :
         req' = [req EXCEPT ![t] =
                    Done(req[t], IF seeds \cap req[t].loaded.items = {} THEN 400
                                 ELSE IF completes THEN 200 ELSE 500)]
    /\ UNCHANGED <<predVars, wkVars, ratings, genres, db, clock, cache, ready, bg, started, returned>>

\* --------------------------------------------------- /api/precompute handler
\* What the requests that have returned saved, per method.
Returned(r) ==
    [m \in Methods |-> IF r.saved[m] > returned[m] THEN r.saved[m] ELSE returned[m]]

\* payload.get("method"): a method name, or none ("all")
PStart(t) ==
    /\ CanStart(t)
    /\ \E m \in Methods \cup {"unknown", "all"} :
         req' = [req EXCEPT ![t] =
                [IdleReq EXCEPT !.kind = "precompute", !.method = m, !.pc = "compute",
                                !.queue = IF m = "all" THEN MethodOrder ELSE <<m>>]]
    /\ started' = started + 1
    /\ UNCHANGED <<predVars, wkVars, ratings, genres, db, clock, cache, ready, bg, returned>>

\* run_precompute(method) up to the save; a ValueError ends the request with 400
PCompute(t) ==
    /\ req[t].kind = "precompute" /\ req[t].pc = "compute"
    /\ LET out == run_precompute(Head(req[t].queue), ratings, genres)
       IN  IF AfterCompute(out) = "save"
           THEN /\ req' = [req EXCEPT ![t].pc = "save", ![t].pending = out.snap,
                                      ![t].err = out.err]
                /\ UNCHANGED returned
           ELSE /\ req' = [req EXCEPT ![t] = Done([req[t] EXCEPT !.err = out.err], 400)]
                /\ returned' = Returned(req[t])
    /\ UNCHANGED <<predVars, wkVars, ratings, genres, db, clock, cache, ready, bg, started>>

\* save_precomputed, the last statement of run_precompute
PSave(t) ==
    /\ req[t].kind = "precompute" /\ req[t].pc = "save"
    /\ LET m == req[t].pending.method
           rest == Tail(req[t].queue)
       IN  /\ db' = save_precomputed(db, m, req[t].pending, clock + 1)
           /\ req' = [req EXCEPT ![t].saved[m] = clock + 1, ![t].queue = rest,
                                 ![t].pending = NoSnap,
                                 ![t].pc = IF rest = <<>> THEN "invalidate"
                                           ELSE "compute"]
    /\ clock' = clock + 1
    /\ saves' = Append(saves, [req[t].pending EXCEPT !.ver = clock + 1])
    /\ UNCHANGED <<predVars, wk, ratings, genres, cache, ready, bg, started, returned>>

\* _invalidate_precomputed_cache(method) / _invalidate_precomputed_cache()
PInvalidate(t) ==
    /\ req[t].kind = "precompute" /\ req[t].pc = "invalidate"
    /\ cache' = _invalidate_precomputed_cache(cache, req[t].method)
    /\ req' = [req EXCEPT ![t].pc = "respond"]
    /\ UNCHANGED <<predVars, wkVars, ratings, genres, db, clock, ready, bg, started, returned>>

\* return jsonify({"results": results})
PRespond(t) ==
    /\ req[t].kind = "precompute" /\ req[t].pc = "respond"
    /\ req' = [req EXCEPT ![t] = Done(req[t], 200)]
    /\ returned' = Returned(req[t])
    /\ UNCHANGED <<predVars, wkVars, ratings, genres, db, clock, cache, ready, bg, started>>

ReqNext(t) ==
    \/ QStart(t) \/ QCacheGet(t) \/ QDbLoad(t) \/ QCacheFill(t) \/ QServe(t)
    \/ PStart(t) \/ PCompute(t) \/ PSave(t) \/ PInvalidate(t) \/ PRespond(t)

Next == BgNext \/ \E t \in Threads : ReqNext(t)

Spec == Init /\ [][Next]_vars

\* The start of a worker: the background thread, and recompute requests as the
\* only other activity.
PrecomputeNext(t) == PStart(t) \/ PCompute(t) \/ PSave(t) \/ PInvalidate(t) \/ PRespond(t)

BootNext == BgNext \/ \E t \in Threads : PrecomputeNext(t)

BootSpec == Init /\ [][BootNext]_vars

\* The background thread is a running thread: each of its steps is taken.
LiveSpec == Spec /\ WF_vars(BgNext)


\* ------------------------- /api/comics, /api/comics/genres, /api/ratings (POST)
\* The whole handler: 400 for a payload without the required keys, else the
\* rows are written to the table (upsert_comics, upsert_comic_genres,
\* insert_ratings) and the count is returned. The comics table holds titles
\* and image urls only.
Ingest(t) ==
    /\ CanStart(t)
    /\ \E table \in {"comics", "genres", "ratings"}, c \in Items, valid \in BOOLEAN :
         /\ req' = [req EXCEPT ![t] =
                      Done([IdleReq EXCEPT !.kind = "ingest", !.method = table,
                                           !.valid = valid],
                           IF valid THEN 200 ELSE 400)]
         /\ ratings' = IF valid /\ table = "ratings" THEN ratings \cup {c} ELSE ratings
         /\ genres' = IF valid /\ table = "genres" THEN genres \cup {c} ELSE genres
    /\ started' = started + 1
    /\ UNCHANGED <<predVars, wkVars, db, clock, cache, ready, bg, returned>>

\* The background thread has finished; the store holds the rows an earlier
\* process saved.
IngestInit ==
    /\ ratings \in SUBSET Items
    /\ genres \in {1..n : n \in 0..MaxItem}
    /\ db = OldStore(Methods)
    /\ clock = 0
    /\ cache \in {[m \in Methods |-> NoSnap], [m \in Methods |-> OldSnap(m)]}
    /\ ready = TRUE
    /\ bg = [pc |-> "done", i |-> Len(MethodOrder), loaded |-> NoSnap, pending |-> NoSnap,
             err |-> "none", computed |-> FALSE, outcome |-> [m \in Methods |-> "loaded"]]
    /\ req = [t \in Threads |-> IdleReq]
    /\ started = 0
    /\ returned = [m \in Methods |-> 0]
    /\ PredIdle
    /\ WkIdle

IngestNext == \E t \in Threads : ReqNext(t) \/ Ingest(t)

IngestSpec == IngestInit /\ [][IngestNext]_vars

\* ------------------------------------------------------- require_api_token
\* Faulty variant: a request without the header is let through.
require_api_token_header_optional(method, path, api_token, key) ==
    IF method = "OPTIONS" THEN 0
    ELSE IF path \in {"/", "/health", "/ready"} THEN 0
    ELSE IF ~api_token THEN 500
    ELSE IF key = "wrong" THEN 401
    ELSE 0

\* The before_request hook: 0 for None (the view function runs), else the
\* status of the response it returns in the view's place.
require_api_token(method, path, api_token, key) ==
    IF method = "OPTIONS" THEN 0
    ELSE IF path \in {"/", "/health", "/ready"} THEN 0
    ELSE IF ~api_token THEN 500
    ELSE IF key # "right" THEN 401
    ELSE 0

Hook == require_api_token(http.method, http.path, http.api_token, http.key)

\* The hook answers in the view's place.
Rejected(t) ==
    /\ CanStart(t) /\ Hook # 0
    /\ req' = [req EXCEPT ![t] = Done([IdleReq EXCEPT !.kind = "rejected"], Hook)]
    /\ started' = started + 1
    /\ UNCHANGED <<predVars, wkVars, ratings, genres, db, clock, cache, ready, bg, returned>>

\* index, health, ready, and Flask's automatic answer to OPTIONS
Exempt(t) ==
    /\ CanStart(t) /\ Hook = 0
    /\ http.method = "OPTIONS" \/ http.path \in {"/", "/health", "/ready"}
    /\ req' = [req EXCEPT ![t] =
                Done([IdleReq EXCEPT !.kind = "exempt"],
                     IF http.method # "OPTIONS" /\ http.path = "/ready" /\ ~ready
                     THEN 503 ELSE 200)]
    /\ started' = started + 1
    /\ UNCHANGED <<predVars, wkVars, ratings, genres, db, clock, cache, ready, bg, returned>>

\* The view functions of the /api routes run once the hook has returned None.
Routed(t) ==
    /\ Hook = 0
    /\ http.method # "OPTIONS" /\ http.path = "/api"
    /\ ReqNext(t) \/ Ingest(t)

\* A process that has finished its background precompute, with or without a
\* configured token, and a client.
AuthInit ==
    /\ ratings \in SUBSET Items
    /\ genres \in {1..n : n \in 0..MaxItem}
    /\ db = OldStore(Methods)
    /\ clock = 0
    /\ cache \in {[m \in Methods |-> NoSnap], [m \in Methods |-> OldSnap(m)]}
    /\ ready = TRUE
    /\ bg = [pc |-> "done", i |-> Len(MethodOrder), loaded |-> NoSnap, pending |-> NoSnap,
             err |-> "none", computed |-> FALSE, outcome |-> [m \in Methods |-> "loaded"]]
    /\ req = [t \in Threads |-> IdleReq]
    /\ started = 0
    /\ returned = [m \in Methods |-> 0]
    /\ WkIdle
    /\ call = NoCall
    /\ app = "none"
    /\ knn_k = KNN_K
    /\ hist = [c \in Comics |-> 0]
    /\ frames = [o \in ObjIds |-> NoFrame]
    /\ precomputed = NoPrecomputed
    /\ pr = [t \in Requests |-> Absent]
    /\ http \in [api_token : BOOLEAN, method : {"OPTIONS", "GET", "POST"},
                 path : {"/", "/health", "/ready", "/api"},
                 key : {"missing", "wrong", "right"}]

AuthNext == \E t \in Threads : Rejected(t) \/ Exempt(t) \/ Routed(t)

AuthSpec == AuthInit /\ [][AuthNext]_vars

\* ------------------------------------------------ post_fork in every worker
\* Each worker process has its own _precomputed_cache and its own thread
\* running _background_precompute; the SQLite file is the one thing shared.
WMethod(w) == MethodOrder[wk[w].i]

\* The end of one round of the loop: the next method, or the end of the thread.
WAdvance(b, outcome) ==
    LET o == [b.outcome EXCEPT ![MethodOrder[b.i]] = outcome]
    IN  IF b.i < Len(MethodOrder)
        THEN [b EXCEPT !.pc = "load", !.i = b.i + 1, !.loaded = NoSnap, !.outcome = o]
        ELSE [b EXCEPT !.pc = "done", !.loaded = NoSnap, !.outcome = o]

\* loaded = load_precomputed(method)
WLoad(w) ==
    /\ wk[w].pc = "load"
    /\ LET l == load_precomputed(db, WMethod(w))
       IN  wk' = [wk EXCEPT ![w].loaded = l,
                            ![w].pc = IF Present(l) THEN "fill" ELSE "compute"]
    /\ UNCHANGED <<predVars, svcVars, saves>>

\* run_precompute(method): the clustering and, unless it raised, the save
WCompute(w) ==
    /\ wk[w].pc = "compute"
    /\ LET out == run_precompute(WMethod(w), ratings, genres)
       IN  IF AfterCompute(out) = "save"
           THEN /\ db' = save_precomputed(db, WMethod(w), out.snap, clock + 1)
                /\ clock' = clock + 1
                /\ saves' = Append(saves, [out.snap EXCEPT !.ver = clock + 1])
                /\ wk' = [wk EXCEPT ![w].pc = "reload",
                                    ![w].outcome[WMethod(w)] = "computed"]
           ELSE /\ wk' = [wk EXCEPT ![w] = WAdvance(wk[w], "failed")]
                /\ UNCHANGED <<db, clock, saves>>
    /\ UNCHANGED <<predVars, ratings, genres, cache, ready, bg, req, started, returned>>

\* loaded = load_precomputed(method), after run_precompute
WReload(w) ==
    /\ wk[w].pc = "reload"
    /\ LET l == load_precomputed(db, WMethod(w))
       IN  wk' = [wk EXCEPT ![w] = IF Present(l) THEN [wk[w] EXCEPT !.loaded = l, !.pc = "fill"]
                                  ELSE WAdvance(wk[w], "computed")]
    /\ UNCHANGED <<predVars, svcVars, saves>>

\* _precomputed_cache[method] = the four fields of loaded
WFill(w) ==
    /\ wk[w].pc = "fill"
    /\ wk' = [wk EXCEPT ![w] =
                WAdvance([wk[w] EXCEPT !.cache[WMethod(w)] = wk[w].loaded],
                         IF wk[w].outcome[WMethod(w)] = "computed" THEN "computed"
                         ELSE "loaded")]
    /\ UNCHANGED <<predVars, svcVars, saves>>

\* The store is empty, or holds the rows an earlier deployment saved, for the
\* first method or for both.
WorkerInit ==
    /\ ratings \in SUBSET Items
    /\ genres \in SUBSET Items
    /\ \E old \in {{}, {"kmeans"}, Methods} :
         /\ db = OldStore(old)
         /\ saves = [i \in 1..Cardinality(old) |-> OldSnap(SortedMethods(old)[i])]
    /\ clock = 0
    /\ wk = [w \in Workers |-> IdleWorker]
    /\ cache = [m \in Methods |-> NoSnap]
    /\ ready = TRUE
    /\ bg = [pc |-> "done", i |-> Len(MethodOrder), loaded |-> NoSnap, pending |-> NoSnap,
             err |-> "none", computed |-> FALSE, outcome |-> [m \in Methods |-> "loaded"]]
    /\ req = [t \in Threads |-> IdleReq]
    /\ started = 0
    /\ returned = [m \in Methods |-> 0]
    /\ PredIdle

\* The workers' threads, and the ingestion requests any worker may serve.
WorkerNext ==
    \/ \E w \in Workers : WLoad(w) \/ WCompute(w) \/ WReload(w) \/ WFill(w)
    \/ \E t \in Threads : Ingest(t)

WorkerSpec == WorkerInit /\ [][WorkerNext]_vars

\* ================================================== recommendation requests
\* The store and the background thread of Spec take no part here.
SvcIdle ==
    /\ WkIdle
    /\ ratings = {} /\ genres = {}
    /\ db = {}
    /\ clock = 0
    /\ cache = [m \in Methods |-> NoSnap]
    /\ ready = TRUE
    /\ bg = [pc |-> "done", i |-> Len(MethodOrder), loaded |-> NoSnap, pending |-> NoSnap,
             err |-> "none", computed |-> FALSE, outcome |-> [m \in Methods |-> "loaded"]]
    /\ req = [t \in Threads |-> IdleReq]
    /\ started = 0
    /\ returned = [m \in Methods |-> 0]

\* One request, to either application. The kappa package answers from the
\* cached snapshot of the method; the flat-layout application holds no snapshot
\* and reads Config.KNN_K from the environment.
PredInit ==
    /\ SvcIdle
    /\ call = NoCall
    /\ http = NoHttp
    /\ app \in {"kappa", "legacy"}
    /\ hist \in Datasets
    /\ knn_k \in IF app = "legacy" THEN {KNN_K, KNN_K + 1, MaxComic} ELSE {KNN_K}
    /\ \E m \in Methods :
         /\ precomputed \in
              IF app = "kappa"
              THEN {[user_item_matrix |-> 0, cluster_labels |-> l,
                     centroids |-> (m = "kmeans")] : l \in Labelings}
              ELSE {NoPrecomputed}
         /\ pr \in {[t \in Requests |-> IF t = "r1" THEN NewRequest(u, m) ELSE Absent] :
                      u \in {v \in SeedInputs : app = "legacy" => v[UnknownComic] = 0}}
    /\ frames = [o \in ObjIds |->
                    IF o = 0 /\ app = "kappa"
                    THEN [columns |-> {"hist"}, user |-> NoRatings] ELSE NoFrame]

\* Two requests to the kappa package, interleaved, on one cached snapshot.
CopyInit ==
    /\ SvcIdle
    /\ call = NoCall
    /\ http = NoHttp
    /\ app = "kappa"
    /\ hist \in Datasets
    /\ knn_k = KNN_K
    /\ \E m \in Methods :
         /\ precomputed \in {[user_item_matrix |-> 0, cluster_labels |-> l,
                              centroids |-> (m = "kmeans")] :
                                l \in {k \in Labelings : \A c \in Comics : c < MaxComic => k[c] = 0}}
         /\ pr \in [Requests ->
                      {NewRequest(u, m) :
                         u \in {v \in SeedInputs :
                                  Cardinality({c \in SeedIds : v[c] # 0}) <= 1}}]
    /\ frames = [o \in ObjIds |->
                    IF o = 0 THEN [columns |-> {"hist"}, user |-> NoRatings] ELSE NoFrame]

\* The response: what the request keeps is its answer; its objects are garbage.
Respond(t, status, result) ==
    /\ pr' = [pr EXCEPT ![t].pc = "done", ![t].status = status, ![t].result = result,
                        ![t].queue = <<>>, ![t].matrix = 0]
    /\ frames' = [frames EXCEPT ![ObjOf(t)] = NoFrame]

\* ------------------------------------------ kappa: /api/kmeans, /api/dbscan
\* Faulty variant: the request works on the cached matrix itself.
CopyFrameAlias(t, o) == o

\* DataFrame.copy(): a new object with the columns of object o
CopyFrame(t, o) == ObjOf(t)

\* user_item_matrix = precomputed["user_item_matrix"].copy()
KCopy(t) ==
    /\ app = "kappa" /\ pr[t].pc = "start"
    /\ LET o == CopyFrame(t, precomputed.user_item_matrix)
       IN  /\ frames' = [frames EXCEPT ![o] = frames[precomputed.user_item_matrix]]
           /\ pr' = [pr EXCEPT ![t].matrix = o, ![t].pc = "assign"]
    /\ UNCHANGED <<svcVars, wkVars, call, http, app, knn_k, hist, precomputed>>

\* user_ratings / rated_comics from the entries whose comic has a row, then
\* user_item_matrix[KAPPA_USER_ID] = user_ratings
KAssign(t) ==
    /\ app = "kappa" /\ pr[t].pc = "assign"
    /\ LET user_ratings == [c \in Comics |-> pr[t].input[c]]
           rated_comics == SortedSeq({c \in Comics : pr[t].input[c] # 0})
           m == pr[t].matrix
       IN  /\ frames' = [frames EXCEPT ![m] =
                            [columns |-> frames[m].columns \cup {KAPPA_USER_ID},
                             user |-> user_ratings]]
           /\ pr' = [pr EXCEPT ![t].rated = rated_comics, ![t].pc = "build"]
    /\ UNCHANGED <<svcVars, wkVars, call, http, app, knn_k, hist, precomputed>>

\* ratings_cluster = build_ratings_cluster(user_item_matrix, cluster_labels);
\* if not rated_comics: 400
KBuild(t) ==
    /\ app = "kappa" /\ pr[t].pc = "build"
    /\ LET rc == build_ratings_cluster(frames[pr[t].matrix], precomputed.cluster_labels)
       IN  IF pr[t].rated = <<>>
           THEN Respond(t, 400, <<>>)
           ELSE /\ pr' = [pr EXCEPT ![t].rc = rc, ![t].pc = "find"]
                /\ UNCHANGED frames
    /\ UNCHANGED <<svcVars, wkVars, call, http, app, knn_k, hist, precomputed>>

\* item_to_predict = find_nearest_unrated(rated_comics, ratings_cluster); an
\* error of find_neighbor is not caught: 500
KFind(t) ==
    /\ app = "kappa" /\ pr[t].pc = "find"
    /\ LET found == find_nearest_unrated(pr[t].rated, pr[t].rc, hist)
       IN  IF found.err # "none"
           THEN Respond(t, 500, <<>>)
           ELSE /\ pr' = [pr EXCEPT ![t].candidates = found.items, ![t].queue = found.items,
                                    ![t].pc = IF found.items = <<>> THEN "respond"
                                              ELSE "predict"]
                /\ UNCHANGED frames
    /\ UNCHANGED <<svcVars, wkVars, call, http, app, knn_k, hist, precomputed>>

\* One iteration of "for item in item_to_predict": predict, keep the
\* prediction if its rating is at least 3; an error of predict is not caught.
KPredict(t) ==
    /\ app = "kappa" /\ pr[t].pc = "predict"
    /\ LET item == Head(pr[t].queue)
           p == predict(KAPPA_USER_ID, item, pr[t].rc,
                        IF pr[t].method = "dbscan" THEN FALSE ELSE precomputed.centroids,
                        hist, knn_k)
           rest == Tail(pr[t].queue)
       IN  IF p.err # "none"
           THEN Respond(t, 500, <<>>)
           ELSE /\ pr' = [pr EXCEPT ![t].queue = rest,
                                    ![t].preds = IF AtLeast(p, MIN_RATING_THRESHOLD)
                                                 THEN Append(@, p) ELSE @,
                                    ![t].pc = IF rest = <<>> THEN "respond" ELSE "predict"]
                /\ UNCHANGED frames
    /\ UNCHANGED <<svcVars, wkVars, call, http, app, knn_k, hist, precomputed>>

\* sorted(prediction_list, key=rating, reverse=True); return jsonify(...)
KRespond(t) ==
    /\ app = "kappa" /\ pr[t].pc = "respond"
    /\ Respond(t, 200, SortedDescending(pr[t].preds))
    /\ UNCHANGED <<svcVars, wkVars, call, http, app, knn_k, hist, precomputed>>

KappaNext(t) == KCopy(t) \/ KAssign(t) \/ KBuild(t) \/ KFind(t) \/ KPredict(t) \/ KRespond(t)

\* ------------------------------- legacy: process_recommendations (src/main.py)
\* utils.find_nearest_unrated: a rated comic without a row is skipped
\* (IndexError, KeyError); every id of the body counts as rated.
utils_find_nearest_unrated(rated_comics, rc, h) ==
    LET with_row == SelectSeq(rated_comics, LAMBDA c : c \in Range(rc.index))
        all == NeighborsOfAll(with_row, rc, h)
    IN  [err |-> all.err, items |-> SortedSeq(all.items \ Range(rated_comics))]

\* validate_user_input (400 for a body with too few entries: here, none),
\* merge_user_rating, load_rating_data, then the clustering engine on the
\* merged data: its labels are the engine's choice.
LCluster(t) ==
    /\ app = "legacy" /\ pr[t].pc = "start"
    /\ IF \A c \in SeedIds : pr[t].input[c] = 0
       THEN Respond(t, 400, <<>>)
       ELSE /\ \E labels \in Labelings :
                 pr' = [pr EXCEPT
                          ![t].rc = [index |-> Index,
                                     columns |-> {"hist", KAPPA_USER_ID, "cluster"},
                                     user |-> [c \in Comics |-> pr[t].input[c]],
                                     cluster |-> labels],
                          ![t].rated = SortedSeq({c \in SeedIds : pr[t].input[c] # 0}),
                          ![t].clustered = TRUE,
                          ![t].pc = "find"]
            /\ UNCHANGED frames
    /\ UNCHANGED <<svcVars, wkVars, call, http, app, knn_k, hist, precomputed>>

\* items_to_predict = find_nearest_unrated(...); the ValueError of find_neighbor
\* leaves process_recommendations: 500
LFind(t) ==
    /\ app = "legacy" /\ pr[t].pc = "find"
    /\ LET found == utils_find_nearest_unrated(pr[t].rated, pr[t].rc, hist)
       IN  IF found.err # "none"
           THEN Respond(t, 500, <<>>)
           ELSE /\ pr' = [pr EXCEPT ![t].candidates = found.items, ![t].queue = found.items,
                                    ![t].pc = IF found.items = <<>> THEN "respond"
                                              ELSE "predict"]
                /\ UNCHANGED frames
    /\ UNCHANGED <<svcVars, wkVars, call, http, app, knn_k, hist, precomputed>>

\* The comics comic_data has a row for: all but the last one.
comic_data == Comics \ {MaxComic}

\* The loop goes on with the next item.
NextItem(r) ==
    [r EXCEPT !.queue = Tail(r.queue),
              !.pc = IF Tail(r.queue) = <<>> THEN "respond" ELSE "predict"]

\* Faulty variant: the error of predict leaves the loop and ends the request.
PredictExceptAborts(r, item) ==
    [r EXCEPT !.pc = "done", !.status = 500, !.result = <<>>, !.queue = <<>>]

\* "except Exception as e: ... continue"
PredictExcept(r, item) == NextItem([r EXCEPT !.failed = @ \cup {item}])

\* One iteration of "for item in items_to_predict": try predict(k=Config.KNN_K)
\* and enrich_prediction_with_metadata (None when the comic has no metadata).
LPredict(t) ==
    /\ app = "legacy" /\ pr[t].pc = "predict"
    /\ LET item == Head(pr[t].queue)
           p == predict(KAPPA_USER_ID, item, pr[t].rc,
                        pr[t].method = "kmeans", hist, knn_k)
       IN  pr' = [pr EXCEPT ![t] =
                    IF p.err # "none" THEN PredictExcept(pr[t], item)
                    ELSE NextItem(IF item \in comic_data
                                  THEN [pr[t] EXCEPT !.preds = Append(@, p)]
                                  ELSE [pr[t] EXCEPT !.nometa = @ \cup {item}])]
    /\ UNCHANGED <<svcVars, wkVars, call, http, app, knn_k, hist, frames, precomputed>>

\* final_predictions = filter_and_sort_predictions(prediction_list, threshold)
LRespond(t) ==
    /\ app = "legacy" /\ pr[t].pc = "respond"
    /\ Respond(t, 200, filter_and_sort_predictions(pr[t].preds, MIN_RATING_THRESHOLD))
    /\ UNCHANGED <<svcVars, wkVars, call, http, app, knn_k, hist, precomputed>>

LegacyNext(t) == LCluster(t) \/ LFind(t) \/ LPredict(t) \/ LRespond(t)

PredNext == \E t \in Requests : KappaNext(t) \/ LegacyNext(t)

PredSpec == PredInit /\ [][PredNext]_vars

CopyNext == \E t \in Requests : KappaNext(t)

CopySpec == CopyInit /\ [][CopyNext]_vars

\* ----------------------------------------------- predict, find_neighbor alone
\* The labels DBSCAN gives: -1 for noise, 0 for the cluster.
NoiseLabelings == [Comics -> {-1, 0}]

\* The frames a caller may hand over: with or without the seed user's column,
\* any labels (noise only without centroids: k-means has no noise); the item
\* may have no row. find_neighbor gets the rows of one cluster.
CallInit ==
    /\ SvcIdle
    /\ http = NoHttp
    /\ app = "none"
    /\ knn_k \in {KNN_K, KNN_K + 1}
    /\ hist \in Datasets
    /\ frames = [o \in ObjIds |-> NoFrame]
    /\ precomputed = NoPrecomputed
    /\ pr = [t \in Requests |-> Absent]
    /\ call \in {[pc |-> "ready", fn |-> f, item_id |-> c, centroids |-> b,
                   which_cluster |-> w, out |-> [err |-> "pending"],
                   merged |-> FALSE, rows |-> <<>>,
                   rc |-> [index |-> Index, columns |-> cols,
                           user |-> [x \in Comics |-> IF x = rated THEN 5 ELSE 0],
                           cluster |-> l],
                   given |-> [index |-> Index, columns |-> cols,
                              user |-> [x \in Comics |-> IF x = rated THEN 5 ELSE 0],
                              cluster |-> l]] :
                    f \in {"predict", "find_neighbor"}, c \in Comics \cup {UnknownComic},
                    b \in BOOLEAN, w \in Labels, rated \in {0, 1},
                    l \in Labelings \cup NoiseLabelings,
                    cols \in {{"hist", "cluster"}, {"hist", KAPPA_USER_ID, "cluster"}}}
    /\ call.centroids => call.rc.cluster \in Labelings

\* predict(KAPPA_USER_ID, item_id, ratings_cluster, centroids, k=k)
CallPredict ==
    /\ call.pc = "ready" /\ call.fn = "predict"
    /\ LET reached == KAPPA_USER_ID \in call.rc.columns /\ call.item_id \in Range(call.rc.index)
           cr == PredictRows(call.item_id, call.rc, call.centroids, knn_k)
       IN  call' = [call EXCEPT !.pc = "returned",
                                !.out = predict(KAPPA_USER_ID, call.item_id, call.rc,
                                                call.centroids, hist, knn_k),
                                !.merged = reached /\ cr.merged,
                                !.rows = IF reached THEN cr.rows ELSE <<>>]
    /\ UNCHANGED <<svcVars, wkVars, app, knn_k, hist, frames, precomputed, pr, http>>

\* find_neighbor(item_id, clustered_ratings, k=k)
CallFindNeighbor ==
    /\ call.pc = "ready" /\ call.fn = "find_neighbor"
    /\ call' = [call EXCEPT !.pc = "returned",
                            !.out = find_neighbor(call.item_id,
                                                  ClusterRows(call.rc, call.which_cluster),
                                                  hist, knn_k)]
    /\ UNCHANGED <<svcVars, wkVars, app, knn_k, hist, frames, precomputed, pr, http>>

CallNext == CallPredict \/ CallFindNeighbor

CallSpec == CallInit /\ [][CallNext]_vars

\* ------------------------------------------------------ merge_cluster, by step
\* merge_cluster called as predict and the tests call it: the rows of one
\* cluster of a frame of up to MaxRows rows, a model of up to MaxClusters
\* clusters whose centroids lie at 0 or 1 (so that distances tie), any k.
MergeFrames ==
    {[index |-> [i \in 1..n |-> i], cluster |-> l] :
        n \in 1..MaxRows, l \in UNION {[1..m -> 0..(MaxClusters - 1)] : m \in 1..MaxRows}}

MergeInit ==
    /\ SvcIdle
    /\ http = NoHttp
    /\ app = "none"
    /\ knn_k \in 1..MaxRows
    /\ hist = [c \in Comics |-> 0]
    /\ frames = [o \in ObjIds |-> NoFrame]
    /\ precomputed = NoPrecomputed
    /\ pr = [t \in Requests |-> Absent]
    /\ \E nc \in 1..MaxClusters, f \in MergeFrames, w \in 0..(MaxClusters - 1),
          cs \in UNION {[0..(m - 1) -> 0..1] : m \in 1..MaxClusters} :
          /\ DOMAIN cs = 0..(nc - 1)
          /\ w \in DOMAIN cs
          /\ DOMAIN f.cluster = 1..Len(f.index)
          /\ \A i \in DOMAIN f.cluster : f.cluster[i] \in DOMAIN cs
          /\ call = [pc |-> "ready", fn |-> "merge_cluster", rc |-> f,
                     which_cluster |-> w, centroids |-> cs,
                     given |-> ClusterRows(f, w),
                     clustered_ratings |-> ClusterRows(f, w),
                     cluster_member |-> 0, sorted_clusters |-> <<>>,
                     absorbed |-> <<>>, counts |-> <<>>]

\* cluster_member = len(clustered_ratings) - 1; the distances to the other
\* clusters; without another cluster the rows are returned as they came
MergeEnter ==
    /\ call.pc = "ready" /\ call.fn = "merge_cluster"
    /\ LET cluster_distance == find_centroid_distance(call.which_cluster, call.centroids)
           member == Len(call.clustered_ratings) - 1
       IN  call' = [call EXCEPT !.pc = IF cluster_distance = <<>> THEN "returned" ELSE "loop",
                                !.cluster_member = member,
                                !.sorted_clusters = cluster_distance,
                                !.counts = <<member>>]
    /\ UNCHANGED <<svcVars, wkVars, app, knn_k, hist, frames, precomputed, pr, http>>

\* One pass of the loop body: the rows of the nearest cluster not yet visited
\* are appended and the members are counted again.
MergeIterate ==
    /\ call.pc = "loop" /\ call.sorted_clusters # <<>>
    /\ ~LoopBreaks(call.cluster_member, knn_k)
    /\ LET nearest_cluster_id == Head(call.sorted_clusters)
           rows == Absorb(call.clustered_ratings, call.rc, nearest_cluster_id)
       IN  call' = [call EXCEPT !.clustered_ratings = rows,
                                !.cluster_member = Len(rows) - 1,
                                !.sorted_clusters = Tail(call.sorted_clusters),
                                !.absorbed = Append(call.absorbed, nearest_cluster_id),
                                !.counts = Append(call.counts, Len(rows) - 1)]
    /\ UNCHANGED <<svcVars, wkVars, app, knn_k, hist, frames, precomputed, pr, http>>

\* break, or the end of sorted_clusters: return clustered_ratings
MergeReturn ==
    /\ call.pc = "loop"
    /\ call.sorted_clusters = <<>> \/ LoopBreaks(call.cluster_member, knn_k)
    /\ call' = [call EXCEPT !.pc = "returned"]
    /\ UNCHANGED <<svcVars, wkVars, app, knn_k, hist, frames, precomputed, pr, http>>

MergeNext == MergeEnter \/ MergeIterate \/ MergeReturn

MergeSpec == MergeInit /\ [][MergeNext]_vars


\* ------------------------------------------- load_rating_data: the pivot table
\* Rows of table ratings: username, comic_id and rating are NOT NULL and no
\* key makes a (username, comic_id) pair unique. Equal rows count once here:
\* a second copy of a row does not change a maximum.
Usernames == {"u1", "u2"}
RatingValues == {1, 3, 5}
RatingRows == [comicID : Items, username : Usernames, rating : RatingValues]

\* Faulty variant: aggfunc="min"
Aggregate_min(values) == CHOOSE v \in values : \A w \in values : v <= w

\* aggfunc="max" over the ratings of one (comicID, username) group
Aggregate(values) == CHOOSE v \in values : \A w \in values : v >= w

\* rating_data.pivot_table(index="comicID", columns="username",
\* values="rating", fill_value=0, aggfunc="max"): the rows are grouped by
\* (comicID, username), each group is aggregated, and the groups are laid out
\* with the comicIDs as index and the usernames as columns, 0 where a pair has
\* no group.
pivot_table(rating_data) ==
    LET groups == {<<r.comicID, r.username>> : r \in rating_data}
        agged == [g \in groups |->
                    Aggregate({r.rating : r \in {x \in rating_data :
                                                   <<x.comicID, x.username>> = g}})]
        index == SortedSeq({g[1] : g \in groups})
        columns == {g[2] : g \in groups}
    IN  [index |-> index, columns |-> columns,
         cell |-> [i \in Range(index), u \in columns |->
                     IF <<i, u>> \in groups THEN agged[<<i, u>>] ELSE 0]]

PivotInit ==
    /\ SvcIdle
    /\ http = NoHttp
    /\ app = "none"
    /\ knn_k = KNN_K
    /\ hist = [c \in Comics |-> 0]
    /\ frames = [o \in ObjIds |-> NoFrame]
    /\ precomputed = NoPrecomputed
    /\ pr = [t \in Requests |-> Absent]
    /\ call \in {[pc |-> "ready", fn |-> "load_rating_data", rating_data |-> d,
                   out |-> [index |-> <<>>, columns |-> {}, cell |-> <<>>]] :
                    d \in (SUBSET RatingRows) \ {{}}}

\* user_item_matrix = rating_data.pivot_table(...)
PivotCall ==
    /\ call.pc = "ready" /\ call.fn = "load_rating_data"
    /\ call' = [call EXCEPT !.pc = "returned", !.out = pivot_table(call.rating_data)]
    /\ UNCHANGED <<svcVars, wkVars, app, knn_k, hist, frames, precomputed, pr, http>>

PivotSpec == PivotInit /\ [][PivotCall]_vars

\* ===================================================================== claims
InFlight(t) == req[t].pc \notin {"idle", "done"}

\* The step is one of request thread t.
StepOf(t) == req'[t] # req[t]

\* C1: a query that starts after a recompute request for its method has
\* returned is answered from a snapshot at least as new as the one that
\* recompute saved, never from one cached before it. (The code lets the
\* background thread, which loaded the older row before the recompute, fill
\* the cache with it after the invalidation.)
C1_QueryAfterRecomputeSeesNewSnapshot ==
    \A t \in Threads :
        (req[t].kind = "query" /\ Present(req[t].loaded))
            => req[t].loaded.ver >= req[t].floor

\* C2: readiness is set only when the background task has left the loop and
\* every method is loaded, computed or failed.
C2_ReadyOnlyAfterAllMethodsTerminal ==
    ready => /\ bg.pc = "done"
             /\ \A m \in Methods : bg.outcome[m] \in {"loaded", "computed", "failed"}

C2_Witness ==
    /\ ready
    /\ bg.outcome["kmeans"] = "failed"
    /\ bg.outcome["dbscan"] = "computed"

\* C3: once the background thread is started it eventually sets readiness with
\* every method attempted, whatever each method's outcome.
C3_StartedLeadsToReady ==
    (bg.pc # "unstarted") ~> (ready /\ \A m \in Methods : bg.outcome[m] # "pending")

\* kmeans failed and stays missing, dbscan is cached, readiness is set, and a
\* kmeans query was answered 503.
C3_Witness ==
    /\ ready
    /\ bg.outcome["kmeans"] = "failed" /\ ~Present(load_precomputed(db, "kmeans"))
    /\ Present(cache["dbscan"])
    /\ \E t \in Threads :
         req[t].kind = "query" /\ req[t].pc = "done"
         /\ req[t].method = "kmeans" /\ req[t].status = 503

\* The method of a finished query has a snapshot neither in the cache nor in
\* the store. Rows are never deleted and the cache is filled only from the
\* store, so it had none during the whole request.
MissedQuery(t) ==
    /\ req[t].kind = "query" /\ req[t].pc = "done"
    /\ ~Present(cache[req[t].method]) /\ ~Present(load_precomputed(db, req[t].method))

\* C4: a query whose body passed validation, for a method with no snapshot in
\* the cache or the store, is answered 503 (400 is the answer to a body that
\* fails validation, given before the snapshot is looked up); a query in flight
\* always has a step of its own to take, so it never waits for the background
\* thread; and no step of a query writes the store, runs a precompute or
\* changes the background thread.
C4_MissingSnapshotGives503 ==
    /\ [](\A t \in Threads : (MissedQuery(t) /\ req[t].valid) => req[t].status = 503)
    /\ [](\A t \in Threads :
            (req[t].kind = "query" /\ InFlight(t)) => ENABLED ReqNext(t))
    /\ [][\A t \in Threads :
            ((req[t].kind = "query" \/ req'[t].kind = "query") /\ StepOf(t))
                => (db' = db /\ clock' = clock /\ bg' = bg)]_vars

\* A 503 given while the background thread has not finished.
C4_Witness ==
    \E t \in Threads :
        /\ MissedQuery(t) /\ req[t].valid /\ req[t].status = 503
        /\ bg.pc \in {"load", "compute"} /\ ~ready

ReqRaises(t) ==
    /\ req[t].pc = "compute"
    /\ run_precompute(Head(req[t].queue), ratings, genres).err # "none"

BgRaises ==
    /\ bg.pc = "compute"
    /\ run_precompute(BgMethod, ratings, genres).err # "none"

\* C6: a run of run_precompute that raises writes nothing: no step of a run
\* whose clustering raised changes the store, in a request or in the
\* background thread.
C6_FailedRecomputeWritesNothing ==
    [][/\ \A t \in Threads :
            (req[t].kind = "precompute" /\ InFlight(t) /\ StepOf(t)
             /\ (ReqRaises(t) \/ req[t].err # "none")) => db' = db
       /\ (bg' # bg /\ (BgRaises \/ bg.err # "none")) => db' = db]_vars

\* A recompute failed with an error of the data while the store held a prior
\* snapshot of that method, which is still there.
C6_Witness ==
    \E t \in Threads :
        /\ req[t].kind = "precompute" /\ req[t].pc = "done" /\ req[t].status = 400
        /\ req[t].err \in {"MissingData", "EngineError"}
        /\ req[t].method = "kmeans"
        /\ load_precomputed(db, "kmeans") = OldSnap("kmeans")

\* What predict gives for comic c on the frame of request r.
Predicted(r, c) ==
    predict(KAPPA_USER_ID, c, r.rc,
            IF app = "kappa" THEN precomputed.centroids ELSE r.method = "kmeans",
            hist, knn_k)

ResultIds(r) == {r.result[i].id : i \in 1..Len(r.result)}

\* The comics the body of request r rates.
SeedsOf(r) == {c \in SeedIds : r.input[c] # 0}

C8_ResultUnratedClusteredSorted ==
    \A t \in Requests :
        (pr[t].pc = "done" /\ pr[t].status = 200) =>
            LET r == pr[t]
            IN  /\ ResultIds(r) \cap SeedsOf(r) = {}
                /\ \A c \in ResultIds(r) :
                     \E s \in SeedsOf(r) \cap Comics : r.rc.cluster[s] = r.rc.cluster[c]
                /\ \A i, j \in 1..Len(r.result) :
                     i < j => RatingGeq(r.result[i], r.result[j])

\* Two recommendations of different rating, from a snapshot with a comic in
\* another cluster than the first recommendation.
C8_Witness ==
    \E t \in Requests :
        /\ app = "kappa" /\ pr[t].pc = "done" /\ pr[t].status = 200
        /\ Len(pr[t].result) >= 2
        /\ ~RatingGeq(pr[t].result[Len(pr[t].result)], pr[t].result[1])
        /\ \E c \in Comics : pr[t].rc.cluster[c] # pr[t].rc.cluster[pr[t].result[1].id]

\* C9: a request that is being answered has not run the clustering engine, and
\* the labels of its frame are those of the stored snapshot. (The flat-layout
\* process_recommendations clusters the merged data on every request.)
C9_RequestUsesStoredLabels ==
    \A t \in Requests :
        pr[t].pc \in {"find", "predict", "respond"} =>
            /\ ~pr[t].clustered
            /\ pr[t].rc.cluster = precomputed.cluster_labels

\* The kmeans / dbscan handler of the kappa package run alone on the cached
\* snapshot: status and list.
RECURSIVE PredictAll(_, _)
PredictAll(items, rc) ==
    IF items = <<>> THEN <<>>
    ELSE <<predict(KAPPA_USER_ID, Head(items), rc, precomputed.centroids, hist, KNN_K)>>
         \o PredictAll(Tail(items), rc)

RunAlone(input) ==
    LET m == [columns |-> {"hist", KAPPA_USER_ID}, user |-> [c \in Comics |-> input[c]]]
        rc == build_ratings_cluster(m, precomputed.cluster_labels)
        rated_comics == SortedSeq({c \in Comics : input[c] # 0})
        found == find_nearest_unrated(rated_comics, rc, hist)
        preds == PredictAll(found.items, rc)
    IN  IF rated_comics = <<>> THEN [status |-> 400, result |-> <<>>]
        ELSE IF found.err # "none" THEN [status |-> 500, result |-> <<>>]
        ELSE IF \E i \in 1..Len(preds) : preds[i].err # "none"
             THEN [status |-> 500, result |-> <<>>]
        ELSE [status |-> 200,
              result |-> filter_and_sort_predictions(preds, MIN_RATING_THRESHOLD)]

\* C10: under every interleaving of two requests the cached matrix never has
\* the seed user's column, no step changes the cached snapshot (its matrix
\* object, its labels), and a finished request's answer is the one the handler
\* gives when run alone on the cached snapshot.
C10_RequestsWorkOnPrivateCopies ==
    /\ [](KAPPA_USER_ID \notin frames[precomputed.user_item_matrix].columns)
    /\ [][precomputed' = precomputed
          /\ frames'[precomputed.user_item_matrix] = frames[precomputed.user_item_matrix]]_vars
    /\ [](\A t \in Requests :
            pr[t].pc = "done" =>
                /\ pr[t].status = RunAlone(pr[t].input).status
                /\ pr[t].result = RunAlone(pr[t].input).result)

\* One request has been answered with a recommendation while the other, with
\* a different body, has added its column to its own copy and is under way.
C10_Witness ==
    /\ pr["r1"].pc = "done" /\ pr["r1"].status = 200 /\ pr["r1"].result # <<>>
    /\ pr["r2"].pc \in {"build", "find", "predict"}
    /\ pr["r2"].input # pr["r1"].input
    /\ SeedsOf(pr["r2"]) \cap Comics # {}
    /\ frames[ObjOf("r2")].user # NoRatings

\* C11: when an ingestion request has been answered, the cache holds no entry,
\* so the next query has to load its snapshot from the store. (The ingestion
\* handlers do not touch the cache.)
C11_IngestionInvalidatesCache ==
    \A t \in Threads :
        (req[t].kind = "ingest" /\ req[t].pc = "done" /\ req[t].status = 200)
            => \A m \in Methods : ~Present(cache[m])

\* The calls of save_precomputed for a method, in order.
SavesOf(m) == SelectSeq(saves, LAMBDA c : c.method = m)

\* C12: load_precomputed of a method gives the matrix, the labels and the
\* centroids of the last save_precomputed call for that method, with a
\* computed_at not earlier than the time of that call; for a method that was
\* never saved it gives None.
C12_LoadReturnsLastSave ==
    \A m \in Methods :
        LET l == load_precomputed(db, m)
            calls == SavesOf(m)
        IN  IF calls = <<>> THEN l = NoSnap
            ELSE LET c == calls[Len(calls)]
                 IN  /\ Present(l)
                     /\ l.items = c.items
                     /\ l.labels = c.labels
                     /\ l.centroids = c.centroids
                     /\ l.ver >= c.ver

\* One method was saved by this run of the workers, with a label array that
\* holds a NaN, and another method was never saved.
C12_Witness ==
    /\ \E m \in Methods : SavesOf(m) = <<>>
    /\ \E m \in Methods :
         /\ SavesOf(m) # <<>>
         /\ LET c == SavesOf(m)[Len(SavesOf(m))]
            IN  c.ver > 0 /\ 0 \in Range(c.labels) /\ c.items # {}

\* C13: the table holds at most one row per method: none for a method never
\* saved, else the row of the last save_precomputed call for that method. (A
\* save for one method therefore leaves the rows of the others as they were.)
C13_SaveIsUpsertByMethod ==
    \A m \in Methods :
        LET rows == {r \in db : r.method = m}
            calls == SavesOf(m)
        IN  /\ Cardinality(rows) <= 1
            /\ IF calls = <<>> THEN rows = {}
               ELSE rows = {[method |-> m,
                             user_item_matrix |-> pickle_dumps(calls[Len(calls)].items),
                             cluster_labels |-> pickle_dumps(calls[Len(calls)].labels),
                             centroids |-> pickle_dumps(calls[Len(calls)].centroids),
                             computed_at |-> calls[Len(calls)].ver]}

\* A method was saved twice, with different matrices, beside the row of the
\* other method.
C13_Witness ==
    \E m \in Methods :
        /\ Len(SavesOf(m)) >= 2
        /\ SavesOf(m)[1].items # SavesOf(m)[2].items
        /\ \E o \in Methods \ {m} : SavesOf(o) # <<>>

\* The snapshots a reader holds: what load_precomputed gave a worker's thread,
\* and the entries of the workers' caches.
Obtained ==
    {wk[w].loaded : w \in Workers} \cup {wk[w].cache[m] : w \in Workers, m \in Methods}

\* C14: every snapshot a reader obtained, from the store or from a cache, is
\* in all its fields the snapshot of one save_precomputed call, under every
\* interleaving of the workers' saves and loads.
C14_SnapshotFromOneSave ==
    \A s \in Obtained : Present(s) => \E i \in 1..Len(saves) : saves[i] = s

\* A worker holds the snapshot of the second save for a method, which
\* overwrote a row with another matrix, while another worker has the first in
\* its cache.
C14_Witness ==
    \E m \in Methods, w, v \in Workers :
        /\ Len(SavesOf(m)) >= 2
        /\ SavesOf(m)[1].items # SavesOf(m)[2].items
        /\ wk[w].cache[m] = SavesOf(m)[1]
        /\ wk[v].cache[m] = SavesOf(m)[2]

\* C15: the snapshot a successful run_precompute saves has one label per row
\* of the matrix, and the label at position i is the engine's label for the
\* item of row i, whether or not every rated item has a genre record.
C15_LabelsAlignedWithMatrix ==
    \A i \in 1..Len(saves) :
        saves[i].ver > 0 =>
            /\ Len(saves[i].labels) = Cardinality(saves[i].items)
            /\ \A j \in 1..Len(saves[i].labels) :
                 saves[i].labels[j] = SortedSeq(saves[i].items)[j]

\* C16: on a store that was empty when the workers started, at most one worker
\* computes and saves a method; the others load what it saved.
C16_OneWorkerComputes ==
    (\A i \in 1..Len(saves) : saves[i].ver > 0)
        => \A m \in Methods :
             Cardinality({w \in Workers : wk[w].outcome[m] = "computed"}) <= 1

\* C20: the cluster data run_precompute hands to the clustering engine has a
\* row for every rated item, those without a genre record included.
C20_ClusterDataCoversRatedItems ==
    \A w \in Workers :
        wk[w].pc = "compute" =>
            LET d == load_rating_data(ratings, genres)
            IN  d.cluster_data = d.matrix /\ d.matrix = ratings

\* C17: a request whose seeds are comics of the data, served with a k that is
\* at least the number of comics, is answered 200 and a rating was predicted
\* for a comic that is not a seed: the neighbour search and the prediction
\* complete on the rows of all the clusters together.
C17_PredictsWhenKExceedsItems ==
    \A r \in Requests :
        (/\ app = "legacy" /\ pr[r].pc = "done" /\ pr[r].clustered
         /\ knn_k >= MaxComic
         /\ pr[r].input[UnknownComic] = 0)
            => /\ pr[r].status = 200
               /\ \E c \in Comics \ SeedsOf(pr[r]) :
                    \/ c \in pr[r].nometa
                    \/ \E i \in 1..Len(pr[r].preds) : pr[r].preds[i].id = c

\* sum_wt of predict for comic c on the frame of request r (0 also when
\* find_neighbor raised).
SumWt(r, c) ==
    LET k == knn_k
        centroids == IF app = "kappa" THEN precomputed.centroids ELSE r.method = "kmeans"
        own == ClusterRows(r.rc, r.rc.cluster[c])
        rows == IF centroids /\ Len(own) - 1 < k
                THEN merge_cluster(own, r.rc, r.rc.cluster[c], KMeansCentroids, k) ELSE own
        nb == find_neighbor(c, rows, hist, k)
    IN  WeightedSums(nb.indices, rows, r.rc, hist, c)[2]

\* C18: when the weight sum of the candidate being predicted is zero, predict
\* returns a rating of exactly 0 without raising, and the returned result
\* carries a low-confidence mark.
C18_ZeroWeightIsMarkedLowConfidence ==
    \A r \in Requests :
        pr[r].pc = "predict" =>
            LET p == Predicted(pr[r], Head(pr[r].queue))
            IN  (p.err = "none" /\ SumWt(pr[r], Head(pr[r].queue)) = 0)
                    => /\ p.num = 0
                       /\ "low_confidence" \in DOMAIN p

BadKey ==
    /\ http.method # "OPTIONS" /\ http.path \notin {"/", "/health", "/ready"}
    /\ http.key \in {"missing", "wrong"}

\* The claim as written: every such request is answered 401.
C21_BadKeyGets401 ==
    BadKey => \A t \in Threads : req[t].pc = "done" => req[t].status = 401

\* C21: every request to a path other than /, /health and /ready, other than
\* OPTIONS, with a missing or wrong X-API-Key is answered by the hook, not by
\* its view function: 401 when the server has a token, 500 when it has none;
\* no step of it changes the ratings, the genres, the snapshots or the cache.
C21_BadKeyRejectedBeforeHandler ==
    [][BadKey =>
        /\ UNCHANGED <<ratings, genres, db, clock, cache>>
        /\ \A t \in Threads :
             req'[t] # req[t] =>
                /\ req'[t].kind = "rejected" /\ req'[t].pc = "done"
                /\ req'[t].status = IF http.api_token THEN 401 ELSE 500]_vars

\* The second request with a wrong key was answered 401 by a server that has
\* a token and a filled cache.
C21_Witness ==
    /\ BadKey /\ http.api_token /\ http.key = "wrong" /\ started = 2
    /\ \E t \in Threads : req[t].kind = "rejected" /\ req[t].status = 401
    /\ \A m \in Methods : Present(cache[m])

\* The call of merge_cluster has computed its distances.
Merging == call.pc \in {"loop", "returned"} /\ call.fn = "merge_cluster"

\* Cluster a comes before cluster b in the order of absorption: its centroid is
\* nearer to the target's, or as near and a is the smaller label.
Before(a, b) ==
    LET d(c) == CentroidDistance(call.centroids, call.which_cluster, c)
    IN  d(a) < d(b) \/ (d(a) = d(b) /\ a < b)

\* The rows of the clusters ids, cluster after cluster.
RECURSIVE RowsOfAll(_, _)
RowsOfAll(rc, ids) ==
    IF ids = <<>> THEN <<>>
    ELSE SelectSeq(rc.index, LAMBDA c : rc.cluster[c] = Head(ids)) \o RowsOfAll(rc, Tail(ids))

\* C22: merge_cluster absorbs the clusters other than the target in ascending
\* distance of their centroid from the target's, of two clusters at the same
\* distance the one with the smaller label first, and every absorption appends
\* all the rows of the absorbed cluster: at every point of the loop the absorbed
\* clusters are in that order, no cluster still waiting comes before an
\* absorbed one, and the rows are the given rows followed by all rows of each
\* absorbed cluster in turn.
C22_AbsorbsNearestFirst ==
    Merging =>
        /\ \A i, j \in 1..Len(call.absorbed) :
              i < j => Before(call.absorbed[i], call.absorbed[j])
        /\ \A i \in 1..Len(call.absorbed) :
              /\ call.absorbed[i] \in (DOMAIN call.centroids) \ {call.which_cluster}
              /\ \A c \in (DOMAIN call.centroids) \ ({call.which_cluster} \cup Range(call.absorbed)) :
                    Before(call.absorbed[i], c)
        /\ call.clustered_ratings = call.given \o RowsOfAll(call.rc, call.absorbed)

\* Two clusters at the same distance were absorbed, the smaller label first,
\* and rows were appended.
C22_Witness ==
    /\ Merging /\ call.pc = "returned"
    /\ Len(call.absorbed) = 2
    /\ CentroidDistance(call.centroids, call.which_cluster, call.absorbed[1])
         = CentroidDistance(call.centroids, call.which_cluster, call.absorbed[2])
    /\ call.absorbed[1] < call.absorbed[2]
    /\ Len(call.clustered_ratings) > Len(call.given) + 1

\* C23: in merge_cluster the member count never decreases from one iteration
\* to the next, every cluster other than the target is absorbed at most once
\* (and the target never), and the loop makes at most numClusters - 1
\* iterations, for every target, assignment and k.
C23_MergeLoopIsBounded ==
    Merging =>
        /\ \A i \in 1..(Len(call.counts) - 1) : call.counts[i] <= call.counts[i + 1]
        /\ \A i, j \in 1..Len(call.absorbed) :
              i # j => call.absorbed[i] # call.absorbed[j]
        /\ call.which_cluster \notin Range(call.absorbed)
        /\ Len(call.absorbed) <= Cardinality(DOMAIN call.centroids) - 1
        /\ Len(call.counts) = Len(call.absorbed) + 1
        /\ Len(call.absorbed) + Len(call.sorted_clusters)
             = Cardinality(DOMAIN call.centroids) - 1

\* The loop ran numClusters - 1 times and returned; one iteration added
\* members, another absorbed an empty cluster.
C23_Witness ==
    /\ Merging /\ call.pc = "returned"
    /\ Cardinality(DOMAIN call.centroids) = MaxClusters
    /\ Len(call.absorbed) = MaxClusters - 1
    /\ \E i \in 1..(Len(call.counts) - 1) : call.counts[i] < call.counts[i + 1]
    /\ \E i \in 1..(Len(call.counts) - 1) : call.counts[i] = call.counts[i + 1]

PredictReached ==
    /\ call.pc = "returned" /\ call.fn = "predict"
    /\ KAPPA_USER_ID \in call.rc.columns /\ call.item_id \in Comics

\* The comics in the item's own cluster.
OwnCluster == {c \in Comics : call.rc.cluster[c] = call.rc.cluster[call.item_id]}

\* C25: predict calls merge_cluster exactly when centroids are given and the
\* item's own cluster has fewer than k members besides the item. Without
\* centroids (the density strategy: the snapshot has none and the handler
\* passes None) the merger is not called and the rows are those of the item's
\* cluster as it is, the noise cluster -1 included.
C25_MergesOnlyWithCentroids ==
    PredictReached =>
        /\ call.merged <=> (call.centroids /\ Cardinality(OwnCluster \ {call.item_id}) < knn_k)
        /\ ~call.centroids =>
              /\ ~call.merged
              /\ Range(call.rows) = OwnCluster
              /\ Len(call.rows) = Cardinality(OwnCluster)

\* predict ran without centroids for an item of the noise cluster that has
\* fewer than k other members while other rows exist: nothing was merged.
C25_Witness ==
    /\ PredictReached /\ ~call.centroids
    /\ call.rc.cluster[call.item_id] = -1
    /\ Cardinality(OwnCluster \ {call.item_id}) < knn_k
    /\ OwnCluster # Comics
    /\ ~call.merged /\ Range(call.rows) = OwnCluster

\* The comics find_neighbor returned for the call, without the item itself and
\* without those the user has not rated.
CountedNeighbors ==
    LET nb == find_neighbor(call.item_id, call.rows, hist, knn_k)
    IN  {c \in {call.rows[nb.indices[i]] : i \in 1..Len(nb.indices)} :
            c # call.item_id /\ call.rc.user[c] # 0}

\* <<sum of rating * similarity, sum of |similarity|>> over the comics S.
RECURSIVE SumsOver(_)
SumsOver(S) ==
    IF S = {} THEN <<0, 0>>
    ELSE LET c == CHOOSE x \in S : TRUE
             rest == SumsOver(S \ {c})
             s == Similarity(hist, call.item_id, c)
         IN  <<rest[1] + call.rc.user[c] * s, rest[2] + (IF s < 0 THEN -s ELSE s)>>

\* C26: the rating predict returns is the sum of rating * similarity divided by
\* the sum of |similarity|, both over exactly the neighbours find_neighbor
\* returned that are not the item itself and that the user has rated; the
\* quotient is returned as it is, also outside 1..5 (stated as
\* rating * sum of |similarity| = sum of rating * similarity).
C26_RatingIsWeightedMean ==
    (PredictReached /\ call.out.err = "none") =>
        /\ call.out.id = call.item_id
        /\ call.out.den > 0
        /\ call.out.num * SumsOver(CountedNeighbors)[2]
             = SumsOver(CountedNeighbors)[1] * call.out.den

\* predict returned a rating below 1: of the two neighbours one was rated, with
\* a negative similarity, and one was skipped.
C26_Witness ==
    /\ PredictReached /\ call.out.err = "none"
    /\ knn_k = 2 /\ Cardinality(CountedNeighbors) = 1
    /\ call.out.num < 0

\* The precompute runs of the process that have clustered and not yet saved:
\* "bg" for the background thread, else the request thread.
RunsInProgress(m) ==
    (IF bg.pc = "save" /\ bg.pending.method = m THEN {"bg"} ELSE {})
        \cup {t \in Threads : /\ req[t].kind = "precompute" /\ req[t].pc = "save"
                              /\ req[t].pending.method = m}

\* C27: within the process at most one precompute run (clustering, then the
\* save) is in progress at any time, the background task and the recompute
\* requests taken together: no two runs are between their clustering and their
\* save at once, so no method has two writers.
C27_OnePrecomputeRunAtATime ==
    Cardinality(UNION {RunsInProgress(m) : m \in Methods}) <= 1

\* C28: for each method the background thread computes and saves only if
\* load_precomputed returned nothing when it checked; if it returned a snapshot,
\* that snapshot goes into the cache and the thread neither clusters nor writes
\* for the method; after computing and saving, the thread loads the method
\* again and caches what that load returned. Step by step: the check sends the
\* thread to the computation exactly when the store has no row; only the save
\* of the computing branch changes the store; the re-load reads the store; the
\* fill puts the loaded snapshot, whichever load it came from, into the cache.
C28_BackgroundComputesOnlyWhenAbsent ==
    [][bg' # bg =>
        /\ bg.pc = "load" =>
              /\ bg'.pc = "compute" => ~Present(load_precomputed(db, BgMethod))
              /\ bg'.pc = "fill" => /\ Present(load_precomputed(db, BgMethod))
                                    /\ bg'.loaded = load_precomputed(db, BgMethod)
                                    /\ ~bg'.computed
        /\ bg.pc \in {"compute", "save"} => ~Present(bg.loaded) /\ ~bg.computed
        /\ db' # db => bg.pc = "save" /\ ~Present(bg.loaded)
        /\ bg.pc = "reload" => /\ bg'.loaded = load_precomputed(db, BgMethod)
                               /\ bg'.pc = "fill" /\ bg'.computed
        /\ bg.pc = "fill" => /\ Present(bg.loaded)
                             /\ cache' = [cache EXCEPT ![BgMethod] = bg.loaded]
                             /\ db' = db
        /\ bg.pc # "fill" => cache' = cache
    ]_vars

\* The background thread is through: it computed kmeans, and the cache holds
\* what load_precomputed returns for it.
C28_Witness ==
    /\ bg.pc = "done"
    /\ bg.outcome["kmeans"] = "computed"
    /\ Present(cache["kmeans"])
    /\ cache["kmeans"] = load_precomputed(db, "kmeans")

\* C29: the item x user matrix built from the rating records has one row per
\* distinct item id and one column per distinct username; the cell of an
\* (item, user) pair is the greatest rating among the records of the pair, and
\* 0 when the pair has no record.
C29_MatrixCellIsMaxRating ==
    (call.pc = "returned" /\ call.fn = "load_rating_data") =>
        LET m == call.out
            RecordsOf(i, u) ==
                {r.rating : r \in {x \in call.rating_data : x.comicID = i /\ x.username = u}}
        IN  /\ Range(m.index) = {r.comicID : r \in call.rating_data}
            /\ Len(m.index) = Cardinality({r.comicID : r \in call.rating_data})
            /\ m.columns = {r.username : r \in call.rating_data}
            /\ DOMAIN m.cell = Range(m.index) \X m.columns
            /\ \A i \in Range(m.index), u \in m.columns :
                  IF RecordsOf(i, u) = {} THEN m.cell[i, u] = 0
                  ELSE /\ m.cell[i, u] \in RecordsOf(i, u)
                       /\ \A v \in RecordsOf(i, u) : v <= m.cell[i, u]

\* A matrix of two items and two users, built from records that rate one pair
\* twice with different ratings and another pair not at all.
C29_Witness ==
    /\ call.pc = "returned" /\ call.fn = "load_rating_data"
    /\ Len(call.out.index) = 2 /\ Cardinality(call.out.columns) = 2
    /\ \E x, y \in call.rating_data :
          x.comicID = y.comicID /\ x.username = y.username /\ x.rating # y.rating
    /\ \E i \in Items, u \in Usernames :
          /\ \A x \in call.rating_data : ~(x.comicID = i /\ x.username = u)
          /\ call.out.cell[i, u] = 0

\* C30: whenever the cache holds an entry for a method, the store holds a
\* snapshot for that method, and the cached entry is a snapshot of that method
\* that was the stored one at some earlier time, one that save_precomputed
\* wrote or the one the process found at its start, and is not newer than the
\* stored one; in every state the background thread, queries, recomputes and
\* invalidations can lead to.
C30_CacheHoldsFormerDurableSnapshot ==
    \A m \in Methods :
        Present(cache[m]) =>
            /\ Present(load_precomputed(db, m))
            /\ cache[m].method = m
            /\ cache[m].ver <= load_precomputed(db, m).ver
            /\ \/ \E i \in 1..Len(saves) : saves[i] = cache[m]
               \/ cache[m] = OldSnap(m)

\* The cache holds a kmeans snapshot that a save wrote and a later save has
\* replaced in the store.
C30_Witness ==
    /\ Present(cache["kmeans"])
    /\ cache["kmeans"].ver >= 1
    /\ cache["kmeans"].ver < load_precomputed(db, "kmeans").ver
    /\ \E i \in 1..Len(saves) : saves[i] = cache["kmeans"]

====
